---- MODULE Spec2Model ----
(***************************************************************************)
(* Project Dock-Ward: the SMI_Scene entity registry with its physics-world *)
(* registration (Scene.h templates), and GameScene1's per-frame Update     *)
(* with its identity-tag collision dispatch and jump state machine.        *)
(*                                                                         *)
(* Lengths are kept exact: a coordinate is stored in tenths of a unit      *)
(* multiplied by max, so that Lerp(a, b, current / max) is an integer.     *)
(* Time is counted in whole seconds.                                       *)
(***************************************************************************)
EXTENDS Integers, Sequences, FiniteSets, TLC

\* ------------------------------------------------------------------ bounds
\* entities CreateEntity may allocate in the registry specification
MaxEntities == 2
\* rigid bodies that may be constructed in the registry specification
MaxBodies == 3
\* Collision Records one harvest may yield
MaxRecords == 2
\* seconds of frame time the Update calls of one run may add up to
MaxElapsed == 12
\* Renderer components that may be constructed
MaxRenderers == 3

\* ------------------------------------------------------- program constants
GLFW_RELEASE == 0
GLFW_PRESS == 1
\* float max = 5
max == 5
\* int MidAirJump = 1
MidAirJump == 1

NoBody == 0
NoEntity == 0
\* the value of a Store slot that holds no SMI_Physics
NoComp == [body |-> NoBody, entity |-> NoEntity, inWorld |-> FALSE, identity |-> 0]

VARIABLES
    \* entt::registry Store
    nextEntity,      \* next handle CreateEntity hands out
    alive,           \* handles for which Store.valid() holds
    comp,            \* handle -> the SMI_Physics stored for it (NoComp if none)
    \* btDiscreteDynamicsWorld* physicsWorld and the native objects
    nextBody,        \* next btRigidBody to be constructed
    world,           \* rigid bodies registered by addRigidBody
    bodyEntity,      \* rigid body -> the entity it was attached for
    freedMotion,     \* bodies whose motion state was deleted
    freedShape,      \* bodies whose collision shape was deleted
    freedBody,       \* bodies that were deleted
    pc,              \* position inside Remove<SMI_Physics>
    rmTarget,        \* the entity Remove<SMI_Physics> is working on
    \* GameScene1
    tags,            \* the level: identity tag of each entity InitScene made
    contacts,        \* the level: pairs of entities whose shapes can overlap
    Collisions,      \* std::vector<SMI_Collision::sptr> Collisions
    current,
    c,
    JumpState,
    CurrentMidAirJump,
    grounded,
    pos,             \* position of the bodies the reactions move
    camX,            \* camera->GetPosition().x
    \* main loop / GLFW
    phase,           \* "idle", "polled", "exited", "crashed"
    keySpace,        \* glfwGetKey(window, GLFW_KEY_SPACE)
    keyE,            \* glfwGetKey(window, GLFW_KEY_E)
    frameDelta,      \* the deltaTime the next Update receives
    \* what the last Update call did
    impulse,         \* PlayerPhys.AddImpulse was called
    midAirAfterInput,\* CurrentMidAirJump right after the jump block
    fired,           \* reactions taken: [rule, idx, fresh]
    reads,           \* <<loop, idx>>: GetComponent<SMI_Physics> was called for record idx
    skipped,         \* record indices a loop stepped over as invalid
    missingGets,     \* entities GetComponent<SMI_Physics> was called on without a component
    stepDelta,       \* deltaTime handed to SMI_Scene::Update
    jumpEdge,        \* the jump key went from released to pressed for this call
    \* history of the run
    elapsed,         \* sum of the deltaTime of all Update calls so far
    airImpulses,     \* impulses applied since grounded was last true on entry to Update
    refusedHeld,     \* a press the jump block refused has been held in every sample since
    \* main()
    mainPc,          \* the statement of main the thread is at
    notmenu,
    notpause,
    isButtonPressed,
    it,
    keyP,            \* glfwGetKey(window, GLFW_KEY_P)
    keyB,            \* glfwGetKey(window, GLFW_KEY_B)
    clock,           \* glfwGetTime()
    lastFrame,
    thisFrame,
    calls,           \* scene calls main made in the current iteration
    \* Renderer components
    renderers,       \* the Renderers constructed: [material, vao]
    glCalls          \* what the last Renderer::Render call did

regVars == <<nextEntity, alive, comp, nextBody, world, bodyEntity,
             freedMotion, freedShape, freedBody, pc, rmTarget>>
levelVars == <<tags, contacts>>
gameVars == <<Collisions, current, c, JumpState, CurrentMidAirJump, grounded, pos, camX>>
inputVars == <<keySpace, keyE, frameDelta>>
obsVars == <<impulse, midAirAfterInput, fired, reads, skipped, missingGets, stepDelta, jumpEdge>>
histVars == <<elapsed, airImpulses, refusedHeld>>
loopVars == <<mainPc, notmenu, notpause, isButtonPressed, it, keyP, keyB,
              clock, lastFrame, thisFrame, calls>>
renderVars == <<renderers, glCalls>>
frameVars == <<levelVars, gameVars, phase, inputVars, obsVars, histVars, loopVars, renderVars>>
vars == <<regVars, frameVars>>

\* ------------------------------------------------------------ the registry
Created == 1..(nextEntity - 1)

\* Store.valid(target)
Valid(e) == e \in alive

\* Store.has<SMI_Physics>(target)
HasComponent(e) == e \in alive /\ comp[e].body # NoBody

\* bodies the registry currently stores as SMI_Physics components
StoredBodies == {comp[e].body : e \in {x \in alive : comp[x].body # NoBody}}

\* the single thread is between two frames and not inside Remove
AtRest == pc = "idle" /\ phase = "idle"

\* entt::entity CreateEntity(): a fresh handle without components
CreateEntity ==
    /\ AtRest
    /\ nextEntity <= MaxEntities
    /\ nextEntity' = nextEntity + 1
    /\ alive' = alive \cup {nextEntity}
    /\ comp' = comp @@ (nextEntity :> NoComp)
    /\ UNCHANGED <<nextBody, world, bodyEntity, freedMotion, freedShape, freedBody, pc, rmTarget>>
    /\ UNCHANGED frameVars

\* Attach leaving the in-world flag of the new component unset
Attach_NoFlag(e) ==
    /\ AtRest
    /\ e \in alive
    /\ comp[e].body = NoBody
    /\ nextBody <= MaxBodies
    /\ comp' = [comp EXCEPT ![e] = [body |-> nextBody, entity |-> e,
                                    inWorld |-> FALSE, identity |-> 0]]
    /\ world' = world \cup {nextBody}
    /\ bodyEntity' = bodyEntity @@ (nextBody :> e)
    /\ nextBody' = nextBody + 1
    /\ UNCHANGED <<nextEntity, alive, freedMotion, freedShape, freedBody, pc, rmTarget>>
    /\ UNCHANGED frameVars

\* Attach<SMI_Physics>(target): Store.emplace default-constructs the
\* component (entt requires that target has none), then the body is
\* given its entity, registered and flagged.
Attach(e) ==
    /\ AtRest
    /\ e \in alive
    /\ comp[e].body = NoBody
    /\ nextBody <= MaxBodies
    /\ comp' = [comp EXCEPT ![e] = [body |-> nextBody, entity |-> e,
                                    inWorld |-> TRUE, identity |-> 0]]
    /\ world' = world \cup {nextBody}
    /\ bodyEntity' = bodyEntity @@ (nextBody :> e)
    /\ nextBody' = nextBody + 1
    /\ UNCHANGED <<nextEntity, alive, freedMotion, freedShape, freedBody, pc, rmTarget>>
    /\ UNCHANGED frameVars

\* AttachCopy<SMI_Physics>(target, copy): Store.emplace_or_replace puts the
\* copy in place of whatever component target held; the copy's body is then
\* registered. Nothing is done about the body of a replaced component.
AttachCopy(e, id) ==
    /\ AtRest
    /\ e \in alive
    /\ nextBody <= MaxBodies
    /\ comp' = [comp EXCEPT ![e] = [body |-> nextBody, entity |-> e,
                                    inWorld |-> TRUE, identity |-> id]]
    /\ world' = world \cup {nextBody}
    /\ bodyEntity' = bodyEntity @@ (nextBody :> e)
    /\ nextBody' = nextBody + 1
    /\ UNCHANGED <<nextEntity, alive, freedMotion, freedShape, freedBody, pc, rmTarget>>
    /\ UNCHANGED frameVars

\* Remove<SMI_Physics>(target), statement by statement.
\* delete TargetBody->getMotionState();
Remove_DeleteMotionState(e) ==
    /\ AtRest
    /\ HasComponent(e)
    /\ freedMotion' = freedMotion \cup {comp[e].body}
    /\ pc' = "rm_shape"
    /\ rmTarget' = e
    /\ UNCHANGED <<nextEntity, alive, comp, nextBody, world, bodyEntity, freedShape, freedBody>>
    /\ UNCHANGED frameVars

\* delete TargetBody->getCollisionShape();
Remove_DeleteShape ==
    /\ pc = "rm_shape"
    /\ freedShape' = freedShape \cup {comp[rmTarget].body}
    /\ pc' = "rm_world"
    /\ UNCHANGED <<nextEntity, alive, comp, nextBody, world, bodyEntity, freedMotion, freedBody, rmTarget>>
    /\ UNCHANGED frameVars

\* physicsWorld->removeRigidBody(TargetBody);
Remove_RemoveRigidBody ==
    /\ pc = "rm_world"
    /\ world' = world \ {comp[rmTarget].body}
    /\ pc' = "rm_body"
    /\ UNCHANGED <<nextEntity, alive, comp, nextBody, bodyEntity, freedMotion, freedShape, freedBody, rmTarget>>
    /\ UNCHANGED frameVars

\* delete TargetBody;
Remove_DeleteBody ==
    /\ pc = "rm_body"
    /\ freedBody' = freedBody \cup {comp[rmTarget].body}
    /\ pc' = "rm_store"
    /\ UNCHANGED <<nextEntity, alive, comp, nextBody, world, bodyEntity, freedMotion, freedShape, rmTarget>>
    /\ UNCHANGED frameVars

\* Store.remove<T>(target);
Remove_StoreRemove ==
    /\ pc = "rm_store"
    /\ comp' = [comp EXCEPT ![rmTarget] = NoComp]
    /\ pc' = "idle"
    /\ rmTarget' = NoEntity
    /\ UNCHANGED <<nextEntity, alive, nextBody, world, bodyEntity, freedMotion, freedShape, freedBody>>
    /\ UNCHANGED frameVars

\* DeleteEntity(target): the handle becomes invalid and its components are
\* released; a Physics Body it holds is deregistered and its native
\* resources are released.
DeleteEntity(e) ==
    /\ AtRest
    /\ e \in alive
    /\ alive' = alive \ {e}
    /\ comp' = [comp EXCEPT ![e] = NoComp]
    /\ world' = world \ {comp[e].body}
    /\ freedMotion' = IF comp[e].body = NoBody THEN freedMotion ELSE freedMotion \cup {comp[e].body}
    /\ freedShape' = IF comp[e].body = NoBody THEN freedShape ELSE freedShape \cup {comp[e].body}
    /\ freedBody' = IF comp[e].body = NoBody THEN freedBody ELSE freedBody \cup {comp[e].body}
    /\ UNCHANGED <<nextEntity, nextBody, bodyEntity, pc, rmTarget>>
    /\ UNCHANGED frameVars

\* ------------------------------------------------------------- GameScene1
\* the player entity InitScene creates first
character == 1

\* glm::vec3 in tenths of a unit
Vec(x, y, z) == <<x, y, z>>

\* a position that does not depend on a timer, in the stored scale
Fixed(v) == [i \in 1..3 |-> max * v[i]]

\* Lerp(a, b, t) with t = num / max: (1.0f - t) * a + b * t, times max
Lerp(a, b, num) == [i \in 1..3 |-> (max - num) * a[i] + b[i] * num]

\* where InitScene puts the bodies the reactions move
InitPos ==
    [door2 |-> Fixed(Vec(-1510, 70, 25)),
     button |-> Fixed(Vec(-1580, 67, 21)),
     button1 |-> Fixed(Vec(-1580, -347, 21)),
     door3 |-> Fixed(Vec(-1667, 70, 25)),
     door4T |-> Fixed(Vec(-125, 92, 20)),
     door4 |-> Fixed(Vec(-125, 92, 20)),
     button6 |-> Fixed(Vec(-125, 77, 151)),
     button7 |-> Fixed(Vec(-125, -877, 151)),
     en |-> Fixed(Vec(-1810, 78, 22)),
     door7 |-> Fixed(Vec(-1857, 67, 25)),
     planks |-> Fixed(Vec(-1825, 65, 88)),
     door8 |-> Fixed(Vec(-2090, 70, 25)),
     fan3 |-> Fixed(Vec(-2235, 72, 88)),
     elevator |-> Fixed(Vec(-750, 70, -18)),
     door1 |-> Fixed(Vec(-460, 95, 20))]

\* x of the player's body, of the static body ed and of the static body ed1
PlayerX == max * 40
EdX == max * (-8790)
Ed1X == max * 4320

\* the state an Update call works on, as it is on entry
FrameStart ==
    [current |-> current, c |-> c, JumpState |-> JumpState,
     CurrentMidAirJump |-> CurrentMidAirJump, grounded |-> grounded,
     pos |-> pos, camX |-> camX, deltaTime |-> frameDelta,
     Collisions |-> Collisions,
     impulse |-> FALSE, midAirAfterInput |-> CurrentMidAirJump,
     fired |-> {}, reads |-> {}, skipped |-> {}, missingGets |-> {},
     harvested |-> FALSE, stepDelta |-> 0, exited |-> FALSE, crashed |-> FALSE]

\* Timers without the clamp of current
Timers_NoClamp(s) ==
    LET c1 == s.c + s.deltaTime
    IN [s EXCEPT !.current = s.current + s.deltaTime,
                 !.c = IF c1 > max THEN 0 ELSE c1]

\* Timers restarting current from 0 when it passes max, as c does
Timers_WrapsCurrent(s) ==
    LET cur1 == s.current + s.deltaTime
        c1 == s.c + s.deltaTime
    IN [s EXCEPT !.current = IF cur1 > max THEN 0 ELSE cur1,
                 !.c = IF c1 > max THEN 0 ELSE c1]

\* current += deltaTime; c += deltaTime; clamp current, wrap c
Timers(s) ==
    LET cur1 == s.current + s.deltaTime
        c1 == s.c + s.deltaTime
    IN [s EXCEPT !.current = IF cur1 > max THEN max ELSE cur1,
                 !.c = IF c1 > max THEN 0 ELSE c1]

\* the camera follows the player's x
FollowPlayer(s) == [s EXCEPT !.camX = PlayerX]

\* JumpInput without the edge test on JumpState: a held key jumps every frame
JumpInput_NoEdge(s) ==
    LET honoured == /\ keySpace = GLFW_PRESS
                    /\ (s.grounded \/ s.CurrentMidAirJump < MidAirJump)
        n == IF honoured /\ ~s.grounded THEN s.CurrentMidAirJump + 1
             ELSE s.CurrentMidAirJump
    IN [s EXCEPT !.impulse = honoured,
                 !.CurrentMidAirJump = n,
                 !.midAirAfterInput = n,
                 !.JumpState = keySpace]

\* JumpInput counting every honoured jump as a mid-air jump
JumpInput_CountsGrounded(s) ==
    LET honoured == /\ keySpace = GLFW_PRESS
                    /\ s.JumpState = GLFW_RELEASE
                    /\ (s.grounded \/ s.CurrentMidAirJump < MidAirJump)
        n == IF honoured THEN s.CurrentMidAirJump + 1
             ELSE s.CurrentMidAirJump
    IN [s EXCEPT !.impulse = honoured,
                 !.CurrentMidAirJump = n,
                 !.midAirAfterInput = n,
                 !.JumpState = keySpace]

\* JumpInput never counting a jump as a mid-air jump
JumpInput_NeverCounts(s) ==
    LET honoured == /\ keySpace = GLFW_PRESS
                    /\ s.JumpState = GLFW_RELEASE
                    /\ (s.grounded \/ s.CurrentMidAirJump < MidAirJump)
    IN [s EXCEPT !.impulse = honoured,
                 !.midAirAfterInput = s.CurrentMidAirJump,
                 !.JumpState = keySpace]

\* JumpInput honouring a refused press later, while the key is still held
JumpInput_Buffered(s) ==
    LET honoured == /\ keySpace = GLFW_PRESS
                    /\ (s.JumpState = GLFW_RELEASE \/ refusedHeld)
                    /\ (s.grounded \/ s.CurrentMidAirJump < MidAirJump)
        n == IF honoured /\ ~s.grounded THEN s.CurrentMidAirJump + 1
             ELSE s.CurrentMidAirJump
    IN [s EXCEPT !.impulse = honoured,
                 !.CurrentMidAirJump = n,
                 !.midAirAfterInput = n,
                 !.JumpState = keySpace]

\* JumpInput with a gate that does not look at CurrentMidAirJump
JumpInput_IgnoresCount(s) ==
    LET honoured == /\ keySpace = GLFW_PRESS
                    /\ s.JumpState = GLFW_RELEASE
        n == IF honoured /\ ~s.grounded THEN s.CurrentMidAirJump + 1
             ELSE s.CurrentMidAirJump
    IN [s EXCEPT !.impulse = honoured,
                 !.CurrentMidAirJump = n,
                 !.midAirAfterInput = n,
                 !.JumpState = keySpace]

\* the jump block and the JumpState sample
JumpInput(s) ==
    LET honoured == /\ keySpace = GLFW_PRESS
                    /\ s.JumpState = GLFW_RELEASE
                    /\ (s.grounded \/ s.CurrentMidAirJump < MidAirJump)
        n == IF honoured /\ ~s.grounded THEN s.CurrentMidAirJump + 1
             ELSE s.CurrentMidAirJump
    IN [s EXCEPT !.impulse = honoured,
                 !.CurrentMidAirJump = n,
                 !.midAirAfterInput = n,
                 !.JumpState = keySpace]

\* the bodies moved every frame by the wrapping ratio time = c / max
SteadyMotion(s) ==
    [s EXCEPT !.pos.elevator = Lerp(Vec(-750, 70, 18), Vec(-750, 70, 88), s.c),
              !.pos.door1 = Lerp(Vec(-460, 95, 150), Vec(-460, 95, 20), s.c)]

\* RecordValid checking the first entity only
RecordValid_FirstOnly(rec) == Valid(rec[1])

\* GetRegistry().valid(Ent1) && GetRegistry().valid(Ent2)
RecordValid(rec) == Valid(rec[1]) /\ Valid(rec[2])

\* Store.get<SMI_Physics>(e).getIdentity(); with no component stored the
\* read is undefined and yields whatever the build produces, here g
Identity(e, g) == IF comp[e].body # NoBody THEN comp[e].identity ELSE g

\* the outcome of an undefined read that ends the process
CrashOutcome == 0

\* Hazard leaving deltaTime as it is
Hazard_KeepsDelta(s, x) ==
    [s EXCEPT !.camX = x, !.exited = (keyE = TRUE)]

\* Hazard calling exit(1) whatever the E key
Hazard_ExitsAlways(s, x) ==
    [s EXCEPT !.camX = x, !.deltaTime = 0, !.exited = TRUE]

\* camera to the x of a static body, physics frozen, E leaves the game
Hazard(s, x) ==
    [s EXCEPT !.camX = x, !.deltaTime = 0, !.exited = (keyE = TRUE)]

Fire(s, rule, i) ==
    [s EXCEPT !.fired = @ \cup {[rule |-> rule, idx |-> i, fresh |-> s.harvested]}]

\* the body of one reaction loop for a record whose tags were read as a, b
Reaction(loop, s, i, a, b) ==
    CASE loop = "l3" ->
            IF a = 1 /\ b = 3
            THEN [Fire(s, "r3", i) EXCEPT
                    !.pos.door2 = Lerp(Vec(-1510, 70, 25), Vec(1510, 70, 65), s.current),
                    !.pos.button = Lerp(Vec(-1580, 67, 21), Vec(-1580, -347, 21), s.current),
                    !.pos.button1 = Lerp(Vec(-1580, -347, 21), Vec(-1580, 67, 21), s.current)]
            ELSE s
      [] loop = "l5" ->
            IF (a = 4 /\ b = 5) \/ (a = 1 /\ b = 5)
            THEN [Fire(s, "r5", i) EXCEPT
                    !.pos.door3 = Lerp(Vec(-1667, 70, 25), Vec(-1667, -340, 25), s.current)]
            ELSE IF a = 2 /\ b = 4
            THEN [Fire(s, "r24", i) EXCEPT
                    !.pos.door3 = Lerp(Vec(-1667, 70, 25), Vec(-1667, 70, 25), s.current)]
            ELSE s
      [] loop = "l6" ->
            IF a = 1 /\ b = 6
            THEN [Fire(s, "r6", i) EXCEPT
                    !.pos.door4T = Lerp(Vec(-125, 92, 20), Vec(-125, -92, 20), s.current),
                    !.pos.door4 = Lerp(Vec(-125, 92, 20), Vec(-125, -92, 20), s.current),
                    !.pos.button6 = Lerp(Vec(-125, 77, 151), Vec(-125, -877, 151), s.current),
                    !.pos.button7 = Lerp(Vec(-125, -877, 151), Vec(-125, 77, 151), s.current)]
            ELSE s
      [] loop = "l7" ->
            IF (a = 1 /\ b = 7) \/ (a = 7 /\ b = 1)
            THEN Hazard(Fire(s, "r7", i), EdX) ELSE s
      [] loop = "l8" ->
            IF (a = 1 /\ b = 8) \/ (a = 8 /\ b = 1)
            THEN Hazard(Fire(s, "r8", i), EdX) ELSE s
      [] loop = "l9" ->
            IF (a = 1 /\ b = 9) \/ (a = 9 /\ b = 1)
            THEN Hazard(Fire(s, "r9", i), EdX) ELSE s
      [] loop = "l10" ->
            IF (a = 10 /\ b = 11) \/ (a = 11 /\ b = 10)
            THEN [Fire(s, "r10", i) EXCEPT
                    !.pos.en = Fixed(Vec(-1810, 4008, 22)),
                    !.pos.door7 = Fixed(Vec(-1857, -470, 25))]
            ELSE s
      [] loop = "l12" ->
            IF (a = 1 /\ b = 12) \/ (a = 12 /\ b = 1)
            THEN [Fire(s, "r12", i) EXCEPT !.pos.planks = Fixed(Vec(-1825, 65, -4348))]
            ELSE s
      [] loop = "l13" ->
            IF (a = 1 /\ b = 13) \/ (a = 13 /\ b = 1)
            THEN [Fire(s, "r13", i) EXCEPT !.pos.door8 = Fixed(Vec(-2090, 3270, 25))]
            ELSE s
      [] loop = "l14" ->
            IF (a = 1 /\ b = 14) \/ (a = 14 /\ b = 1)
            THEN Hazard(Fire(s, "r14", i), EdX) ELSE s
      [] loop = "l15" ->
            IF (a = 15 /\ b = 13) \/ (a = 13 /\ b = 15)
            THEN [Fire(s, "r15", i) EXCEPT !.pos.fan3 = Fixed(Vec(-2235, 72, 4348))]
            ELSE s
      [] loop = "l16" ->
            IF (a = 1 /\ b = 16) \/ (a = 16 /\ b = 1)
            THEN Hazard(Fire(s, "r16", i), Ed1X) ELSE s
      [] loop = "collider" ->
            IF (a = 1 /\ b = 2) \/ (a = 2 /\ b = 1)
            THEN [Fire(s, "ground", i) EXCEPT !.grounded = TRUE, !.CurrentMidAirJump = 0]
            ELSE s

\* React freezing the physics step for every valid record before the tag test
React_Freezes(loop, s, i, g) ==
    LET rec == s.Collisions[i] IN
    IF ~RecordValid(rec)
    THEN [s EXCEPT !.skipped = @ \cup {i}]
    ELSE LET missing == {e \in {rec[1], rec[2]} : comp[e].body = NoBody}
             s1 == [s EXCEPT !.reads = @ \cup {<<loop, i>>},
                             !.missingGets = @ \cup missing,
                             !.deltaTime = 0]
         IN IF missing # {} /\ g = CrashOutcome
            THEN [s1 EXCEPT !.crashed = TRUE]
            ELSE Reaction(loop, s1, i, Identity(rec[1], g), Identity(rec[2], g))

\* one iteration of a loop over Collisions: validity check, the two
\* GetComponent<SMI_Physics> calls, then the tag test
React(loop, s, i, g) ==
    LET rec == s.Collisions[i] IN
    IF ~RecordValid(rec)
    THEN [s EXCEPT !.skipped = @ \cup {i}]
    ELSE LET missing == {e \in {rec[1], rec[2]} : comp[e].body = NoBody}
             s1 == [s EXCEPT !.reads = @ \cup {<<loop, i>>},
                             !.missingGets = @ \cup missing]
         IN IF missing # {} /\ g = CrashOutcome
            THEN [s1 EXCEPT !.crashed = TRUE]
            ELSE Reaction(loop, s1, i, Identity(rec[1], g), Identity(rec[2], g))

\* RunLoop going over the list from its last record to its first
RECURSIVE RunLoop_Backwards(_, _, _, _)
RunLoop_Backwards(loop, s, i, g) ==
    IF i > Len(s.Collisions) \/ s.exited \/ s.crashed THEN s
    ELSE RunLoop_Backwards(loop, React(loop, s, Len(s.Collisions) + 1 - i, g), i + 1, g)

\* for (int i = 0; i < Collisions.size(); i++) { ... }; exit(1) or a crash
\* inside the body ends the process there
RECURSIVE RunLoop(_, _, _, _)
RunLoop(loop, s, i, g) ==
    IF i > Len(s.Collisions) \/ s.exited \/ s.crashed THEN s
    ELSE RunLoop(loop, React(loop, s, i, g), i + 1, g)

\* the ordered tag pairs (B1, B2) some loop of Update or Collider tests for
RulePairs ==
    {<<1, 3>>, <<4, 5>>, <<1, 5>>, <<2, 4>>, <<1, 6>>,
     <<1, 7>>, <<7, 1>>, <<1, 8>>, <<8, 1>>, <<1, 9>>, <<9, 1>>,
     <<10, 11>>, <<11, 10>>, <<1, 12>>, <<12, 1>>, <<1, 13>>, <<13, 1>>,
     <<1, 14>>, <<14, 1>>, <<15, 13>>, <<13, 15>>, <<1, 16>>, <<16, 1>>,
     <<1, 2>>, <<2, 1>>}

\* the reaction loops of Update in the order they are written
LoopOrder == <<"l3", "l5", "l6", "l7", "l8", "l9", "l10", "l12", "l13", "l14", "l15", "l16">>

RECURSIVE RunLoops(_, _, _)
RunLoops(s, k, g) ==
    IF k > Len(LoopOrder) THEN s
    ELSE RunLoops(RunLoop(LoopOrder[k], s, 1, g), k + 1, g)

\* Reactions looking at the first record of the list only
Reactions_FirstRecordOnly(s, g) ==
    LET first == IF s.Collisions = <<>> THEN <<>> ELSE <<Head(s.Collisions)>>
    IN [RunLoops([s EXCEPT !.Collisions = first], 1, g) EXCEPT !.Collisions = s.Collisions]

\* the twelve loops between the scripted motion and SMI_Scene::Update
Reactions(s, g) == RunLoops(s, 1, g)

\* SMI_Scene::Update(deltaTime): step the Physics World by the delta it is
\* handed, then replace Collisions by the records of that step
SceneUpdate(s, h) ==
    [s EXCEPT !.Collisions = h, !.harvested = TRUE, !.stepDelta = s.deltaTime]

\* Collider leaving CurrentMidAirJump as it finds it
Collider_KeepsCount(s, g) ==
    [RunLoop("collider", s, 1, g) EXCEPT !.CurrentMidAirJump = s.CurrentMidAirJump]

\* void Collider()
Collider(s, g) == RunLoop("collider", s, 1, g)

\* Landing without the reset of grounded
Landing_NoReset(s, g) == Collider(s, g)

\* grounded = false; Collider();
Landing(s, g) == Collider([s EXCEPT !.grounded = FALSE], g)

\* GameScene1::Update up to the call of SMI_Scene::Update
BeforeStep(g) == Reactions(SteadyMotion(JumpInput(FollowPlayer(Timers(FrameStart)))), g)

\* the rest of GameScene1::Update, h being what the harvest yields; exit(1)
\* or a crash in a reaction loop leaves the state as it was there
AfterStep(s, g, h) ==
    IF s.exited \/ s.crashed THEN s ELSE Landing(SceneUpdate(s, h), g)

\* GameScene1::Update(deltaTime) as a whole
RunUpdate(g, h) == AfterStep(BeforeStep(g), g, h)

\* --------------------------------------------------- the level and harvest
\* a level: the identity tag of each entity (entity 1 is the player) and the
\* pairs of entities placed so that their shapes can come to overlap
Level(t, k) == [tags |-> t, contacts |-> k]

\* the player next to one body of each tag InitScene uses
PairLevels == {Level(<<1, t>>, {{1, 2}}) : t \in 2..16}

\* levels with two bodies besides the player
TripleLevels ==
    {Level(<<1, 2, 6>>, {{1, 2}, {1, 3}}),
     Level(<<1, 3, 12>>, {{1, 2}, {1, 3}}),
     Level(<<1, 4, 5>>, {{1, 3}, {2, 3}}),
     Level(<<1, 2, 4>>, {{1, 2}, {2, 3}}),
     Level(<<1, 10, 11>>, {{2, 3}}),
     Level(<<1, 13, 15>>, {{1, 2}, {2, 3}})}

\* a level in which both rules that move door3 can fire
QuadLevels == {Level(<<1, 2, 4, 5>>, {{2, 3}, {3, 4}})}

\* a body takes part in the simulation while it is registered
Registered(e) == e \in alive /\ comp[e].body # NoBody /\ comp[e].body \in world

\* the records one overlapping pair can give, B1 and B2 in either order
Oriented ==
    {p \in (DOMAIN tags) \X (DOMAIN tags) :
        /\ {p[1], p[2]} \in contacts
        /\ Registered(p[1])
        /\ Registered(p[2])}

\* Collisions after CollisionManage: at most one record per overlapping
\* pair of registered bodies, in any order
RECURSIVE HarvestUpTo(_)
HarvestUpTo(n) ==
    IF n = 0 THEN {<<>>}
    ELSE LET shorter == HarvestUpTo(n - 1) IN
         shorter \cup
         {Append(l, p) : <<l, p>> \in
            {x \in shorter \X Oriented :
                /\ Len(x[1]) = n - 1
                /\ \A j \in 1..Len(x[1]) : {x[1][j][1], x[1][j][2]} # {x[2][1], x[2][2]}}}

Harvest == HarvestUpTo(MaxRecords)

\* ------------------------------------------------------------- the frame
\* frame deltas the window system reports, in seconds
DeltaTimes == {0, 3}

\* glfwPollEvents and the clock: the key states and the delta the next
\* Update sees; a run is followed for MaxElapsed seconds of frame time
Poll(spaceKeys, eKeys, deltas) ==
    /\ AtRest
    /\ phase' = "polled"
    /\ keySpace' \in spaceKeys
    /\ keyE' \in eKeys
    /\ frameDelta' \in {d \in deltas : elapsed + d <= MaxElapsed}
    /\ impulse' = FALSE
    /\ midAirAfterInput' = 0
    /\ fired' = {}
    /\ reads' = {}
    /\ skipped' = {}
    /\ missingGets' = {}
    /\ stepDelta' = 0
    /\ jumpEdge' = FALSE
    /\ UNCHANGED <<regVars, levelVars, gameVars, histVars, loopVars, renderVars>>

\* a frame with any state of the space and E keys
PollEvents == Poll({GLFW_RELEASE, GLFW_PRESS}, BOOLEAN, DeltaTimes)

\* a frame of three seconds in which neither key is down
PollQuiet == Poll({GLFW_RELEASE}, {FALSE}, {3})

\* frame deltas from none to more than the whole duration max
TimerDeltas == 0..(max + 1)

\* a frame of any of these lengths in which neither key is down
PollTimed == Poll({GLFW_RELEASE}, {FALSE}, TimerDeltas)

\* a record of Collisions names a valid entity that holds no SMI_Physics
ReadsMissing ==
    \E i \in 1..Len(Collisions) :
        /\ RecordValid(Collisions[i])
        /\ \E e \in {Collisions[i][1], Collisions[i][2]} : comp[e].body = NoBody

\* what an undefined read can give: the crash or any tag value
Garbage == IF ReadsMissing THEN 0..16 ELSE {CrashOutcome}

\* GameScene1::Update(deltaTime), the call itself
UpdateCall ==
    /\ phase = "polled"
    /\ pc = "idle"
    /\ \E g \in Garbage :
         \E b \in {BeforeStep(g)} :
         \E h \in (IF b.exited \/ b.crashed THEN {<<>>} ELSE Harvest) :
         \E s \in {AfterStep(b, g, h)} :
            /\ phase' = IF s.crashed THEN "crashed" ELSE IF s.exited THEN "exited" ELSE "idle"
            /\ Collisions' = s.Collisions
            /\ current' = s.current
            /\ c' = s.c
            /\ JumpState' = s.JumpState
            /\ CurrentMidAirJump' = s.CurrentMidAirJump
            /\ grounded' = s.grounded
            /\ pos' = s.pos
            /\ camX' = s.camX
            /\ impulse' = s.impulse
            /\ midAirAfterInput' = s.midAirAfterInput
            /\ fired' = s.fired
            /\ reads' = s.reads
            /\ skipped' = s.skipped
            /\ missingGets' = s.missingGets
            /\ stepDelta' = s.stepDelta
            /\ airImpulses' = (IF grounded THEN 0 ELSE airImpulses)
                                + (IF s.impulse /\ ~grounded THEN 1 ELSE 0)
    /\ elapsed' = elapsed + frameDelta
    /\ refusedHeld' = /\ keySpace = GLFW_PRESS
                      /\ \/ /\ JumpState = GLFW_RELEASE
                            /\ ~(grounded \/ CurrentMidAirJump < MidAirJump)
                         \/ /\ JumpState = GLFW_PRESS
                            /\ refusedHeld
    /\ jumpEdge' = (keySpace = GLFW_PRESS /\ JumpState = GLFW_RELEASE)
    /\ UNCHANGED <<regVars, levelVars, inputVars, renderVars>>

\* a frame of the running game: MainScene.Update(dt)
Update ==
    /\ UpdateCall
    /\ UNCHANGED loopVars

\* --------------------------------------------------------- specifications
GameFresh ==
    /\ Collisions = <<>>
    /\ current = 0
    /\ c = 0
    /\ JumpState = GLFW_RELEASE
    /\ CurrentMidAirJump = 0
    /\ grounded = FALSE
    /\ pos = InitPos
    /\ camX = max * (-2)
    /\ phase = "idle"
    /\ keySpace = GLFW_RELEASE
    /\ keyE = FALSE
    /\ frameDelta = 0
    /\ impulse = FALSE
    /\ midAirAfterInput = 0
    /\ fired = {}
    /\ reads = {}
    /\ skipped = {}
    /\ missingGets = {}
    /\ stepDelta = 0
    /\ jumpEdge = FALSE
    /\ elapsed = 0
    /\ airImpulses = 0
    /\ refusedHeld = FALSE
    /\ renderers = <<>>
    /\ glCalls = [renderer |-> 0, ops |-> <<>>]

\* the locals of main as they are declared
MainFresh ==
    /\ mainPc = "init"
    /\ notmenu = TRUE
    /\ notpause = TRUE
    /\ isButtonPressed = FALSE
    /\ it = FALSE
    /\ keyP = FALSE
    /\ keyB = FALSE
    /\ clock = 0
    /\ lastFrame = 0
    /\ thisFrame = 0
    /\ calls = <<>>

\* main with the menu left and the game running, between two iterations
MainPlaying ==
    /\ mainPc = "loop"
    /\ notmenu = FALSE
    /\ notpause = TRUE
    /\ isButtonPressed = FALSE
    /\ it = FALSE
    /\ keyP = FALSE
    /\ keyB = FALSE
    /\ clock = 0
    /\ lastFrame = 0
    /\ thisFrame = 0
    /\ calls = <<>>

\* a scene right after construction: empty registry, empty world
SceneInit ==
    /\ nextEntity = 1
    /\ alive = {}
    /\ comp = <<>>
    /\ nextBody = 1
    /\ world = {}
    /\ bodyEntity = <<>>
    /\ freedMotion = {}
    /\ freedShape = {}
    /\ freedBody = {}
    /\ pc = "idle"
    /\ rmTarget = NoEntity
    /\ tags = <<>>
    /\ contacts = {}
    /\ GameFresh
    /\ MainFresh

\* the scene after InitScene built level lv: every entity holds a
\* registered SMI_Physics carrying its tag
InitScene(lv) ==
    /\ tags = lv.tags
    /\ contacts = lv.contacts
    /\ nextEntity = Len(lv.tags) + 1
    /\ alive = DOMAIN lv.tags
    /\ comp = [e \in DOMAIN lv.tags |->
                 [body |-> e, entity |-> e, inWorld |-> TRUE, identity |-> lv.tags[e]]]
    /\ nextBody = Len(lv.tags) + 1
    /\ world = DOMAIN lv.tags
    /\ bodyEntity = [b \in DOMAIN lv.tags |-> b]
    /\ freedMotion = {}
    /\ freedShape = {}
    /\ freedBody = {}
    /\ pc = "idle"
    /\ rmTarget = NoEntity
    /\ GameFresh
    /\ MainPlaying

\* identity tags a copied-in SMI_Physics may carry in the registry specification
CopyTags == {1, 2}

SceneNext ==
    \/ CreateEntity
    \/ \E e \in Created : Attach(e)
    \/ \E e \in Created : \E id \in CopyTags : AttachCopy(e, id)
    \/ \E e \in Created : Remove_DeleteMotionState(e)
    \/ Remove_DeleteShape
    \/ Remove_RemoveRigidBody
    \/ Remove_DeleteBody
    \/ Remove_StoreRemove
    \/ \E e \in Created : DeleteEntity(e)

\* the registry and the Physics World under the entity operations
SceneSpec == SceneInit /\ [][SceneNext]_vars

Init == \E lv \in PairLevels \cup TripleLevels \cup QuadLevels : InitScene(lv)

Next ==
    \/ PollEvents
    \/ Update

\* GameScene1 frame after frame
Spec == Init /\ [][Next]_vars

\* levels for the frames between which entities are deleted or lose their body
StaleLevels ==
    {Level(<<1, 3, 12>>, {{1, 2}, {1, 3}}),
     Level(<<1, 2, 6>>, {{1, 2}, {1, 3}})}

StaleInit == \E lv \in StaleLevels : InitScene(lv)

\* entities other than the ones Update dereferences by name
Removable == Created \ {character}

StaleNext ==
    \/ PollQuiet
    \/ Update
    \/ \E e \in Removable : Remove_DeleteMotionState(e)
    \/ Remove_DeleteShape
    \/ Remove_RemoveRigidBody
    \/ Remove_DeleteBody
    \/ Remove_StoreRemove
    \/ \E e \in Removable : DeleteEntity(e)

\* GameScene1 frame after frame, with entities deleted and bodies removed
\* between the frames
StaleSpec == StaleInit /\ [][StaleNext]_vars

\* ------------------------------------------------------------------ main()
\* the levels main is followed on: the player on the ground, the player at
\* a hazard
MainLevels == {Level(<<1, 2>>, {{1, 2}}), Level(<<1, 7>>, {{1, 2}})}

\* seconds between two readings of glfwGetTime
MainDeltas == {0, 3}

\* the variables of the scene no statement of main but InitScene and
\* Update touches
sceneVars == <<regVars, levelVars, gameVars, histVars>>

\* Ma.InitScene(); MainScene.InitScene(); Pausescreen.InitScene();
Main_InitScenes(lv) ==
    /\ mainPc = "init"
    /\ tags' = lv.tags
    /\ contacts' = lv.contacts
    /\ nextEntity' = Len(lv.tags) + 1
    /\ alive' = DOMAIN lv.tags
    /\ comp' = [e \in DOMAIN lv.tags |->
                  [body |-> e, entity |-> e, inWorld |-> TRUE, identity |-> lv.tags[e]]]
    /\ nextBody' = Len(lv.tags) + 1
    /\ world' = DOMAIN lv.tags
    /\ bodyEntity' = [b \in DOMAIN lv.tags |-> b]
    /\ mainPc' = "loop"
    /\ UNCHANGED <<freedMotion, freedShape, freedBody, pc, rmTarget>>
    /\ UNCHANGED <<gameVars, histVars, phase, inputVars, obsVars, renderVars>>
    /\ UNCHANGED <<notmenu, notpause, isButtonPressed, it, keyP, keyB,
                   clock, lastFrame, thisFrame, calls>>

\* while (!glfwWindowShouldClose(window)) found false: the window closed
Main_Close ==
    /\ mainPc = "loop"
    /\ mainPc' = "closed"
    /\ UNCHANGED <<sceneVars, phase, inputVars, obsVars, renderVars>>
    /\ UNCHANGED <<notmenu, notpause, isButtonPressed, it, keyP, keyB,
                   clock, lastFrame, thisFrame, calls>>

\* glfwPollEvents(); thisFrame = glfwGetTime(); dt = thisFrame - lastFrame;
Main_Poll ==
    /\ mainPc = "loop"
    /\ \E d \in MainDeltas :
          /\ clock + d <= MaxElapsed
          /\ clock' = clock + d
    /\ thisFrame' = clock'
    /\ frameDelta' = thisFrame' - lastFrame
    /\ keySpace' \in {GLFW_RELEASE, GLFW_PRESS}
    /\ keyE' \in BOOLEAN
    /\ keyP' \in BOOLEAN
    /\ keyB' \in BOOLEAN
    /\ phase' = "polled"
    /\ calls' = <<>>
    /\ impulse' = FALSE
    /\ midAirAfterInput' = 0
    /\ fired' = {}
    /\ reads' = {}
    /\ skipped' = {}
    /\ missingGets' = {}
    /\ stepDelta' = 0
    /\ jumpEdge' = FALSE
    /\ mainPc' = "toggleP"
    /\ UNCHANGED <<sceneVars, renderVars>>
    /\ UNCHANGED <<notmenu, notpause, isButtonPressed, it, lastFrame>>

\* Main_ToggleMenu flipping notmenu in every iteration that finds P down
Main_ToggleMenu_NoLatch ==
    /\ mainPc = "toggleP"
    /\ notmenu' = IF keyP THEN ~notmenu ELSE notmenu
    /\ isButtonPressed' = keyP
    /\ mainPc' = "toggleB"
    /\ UNCHANGED <<sceneVars, phase, inputVars, obsVars, renderVars>>
    /\ UNCHANGED <<notpause, it, keyP, keyB, clock, lastFrame, thisFrame, calls>>

\* if (glfwGetKey(window, GLFW_KEY_P)) { if (!isButtonPressed) notmenu = !notmenu; ... }
Main_ToggleMenu ==
    /\ mainPc = "toggleP"
    /\ notmenu' = IF keyP /\ ~isButtonPressed THEN ~notmenu ELSE notmenu
    /\ isButtonPressed' = keyP
    /\ mainPc' = "toggleB"
    /\ UNCHANGED <<sceneVars, phase, inputVars, obsVars, renderVars>>
    /\ UNCHANGED <<notpause, it, keyP, keyB, clock, lastFrame, thisFrame, calls>>

\* if (glfwGetKey(window, GLFW_KEY_B)) { if (!it) notpause = !notpause; ... }
Main_TogglePause ==
    /\ mainPc = "toggleB"
    /\ notpause' = IF keyB /\ ~it THEN ~notpause ELSE notpause
    /\ it' = keyB
    /\ mainPc' = "scene"
    /\ UNCHANGED <<sceneVars, phase, inputVars, obsVars, renderVars>>
    /\ UNCHANGED <<notmenu, isButtonPressed, keyP, keyB, clock, lastFrame, thisFrame, calls>>

\* SceneActive also while the pause screen is up
SceneActive_IgnoresPause == ~notmenu

\* if (!notmenu && notpause)
SceneActive == ~notmenu /\ notpause

\* MainScene.Render();
Main_Render ==
    /\ mainPc = "scene"
    /\ SceneActive
    /\ calls' = Append(calls, "Render")
    /\ mainPc' = "update"
    /\ UNCHANGED <<sceneVars, phase, inputVars, obsVars, renderVars>>
    /\ UNCHANGED <<notmenu, notpause, isButtonPressed, it, keyP, keyB,
                   clock, lastFrame, thisFrame>>

\* the main scene is not active: neither Render nor Update is called
Main_SkipScene ==
    /\ mainPc = "scene"
    /\ ~SceneActive
    /\ phase' = "idle"
    /\ mainPc' = "menu"
    /\ UNCHANGED <<sceneVars, inputVars, obsVars, renderVars>>
    /\ UNCHANGED <<notmenu, notpause, isButtonPressed, it, keyP, keyB,
                   clock, lastFrame, thisFrame, calls>>

\* MainScene.Update(dt); exit(1) inside it ends the process
Main_Update ==
    /\ mainPc = "update"
    /\ UpdateCall
    /\ calls' = Append(calls, "Update")
    /\ mainPc' = IF phase' = "idle" THEN "menu" ELSE "ended"
    /\ UNCHANGED <<notmenu, notpause, isButtonPressed, it, keyP, keyB,
                   clock, lastFrame, thisFrame>>

\* if (notmenu) Ma.Render();
Main_Menu ==
    /\ mainPc = "menu"
    /\ calls' = IF notmenu THEN Append(calls, "MenuRender") ELSE calls
    /\ mainPc' = "pause"
    /\ UNCHANGED <<sceneVars, phase, inputVars, obsVars, renderVars>>
    /\ UNCHANGED <<notmenu, notpause, isButtonPressed, it, keyP, keyB,
                   clock, lastFrame, thisFrame>>

\* if (!notmenu && !notpause) { Pausescreen.Render(); if (E) exit(1); }
Main_Pause ==
    /\ mainPc = "pause"
    /\ calls' = IF ~notmenu /\ ~notpause THEN Append(calls, "PauseRender") ELSE calls
    /\ mainPc' = IF ~notmenu /\ ~notpause /\ keyE THEN "ended" ELSE "end"
    /\ UNCHANGED <<sceneVars, phase, inputVars, obsVars, renderVars>>
    /\ UNCHANGED <<notmenu, notpause, isButtonPressed, it, keyP, keyB,
                   clock, lastFrame, thisFrame>>

\* Main_EndFrame advancing lastFrame only in iterations that ran the scene
Main_EndFrame_ActiveOnly ==
    /\ mainPc = "end"
    /\ lastFrame' = IF ~notmenu /\ notpause THEN thisFrame ELSE lastFrame
    /\ mainPc' = "loop"
    /\ UNCHANGED <<sceneVars, phase, inputVars, obsVars, renderVars>>
    /\ UNCHANGED <<notmenu, notpause, isButtonPressed, it, keyP, keyB,
                   clock, thisFrame, calls>>

\* lastFrame = thisFrame; glfwSwapBuffers(window);
Main_EndFrame ==
    /\ mainPc = "end"
    /\ lastFrame' = thisFrame
    /\ mainPc' = "loop"
    /\ UNCHANGED <<sceneVars, phase, inputVars, obsVars, renderVars>>
    /\ UNCHANGED <<notmenu, notpause, isButtonPressed, it, keyP, keyB,
                   clock, thisFrame, calls>>

MainInit == SceneInit

MainNext ==
    \/ \E lv \in MainLevels : Main_InitScenes(lv)
    \/ Main_Close
    \/ Main_Poll
    \/ Main_ToggleMenu
    \/ Main_TogglePause
    \/ Main_Render
    \/ Main_SkipScene
    \/ Main_Update
    \/ Main_Menu
    \/ Main_Pause
    \/ Main_EndFrame

\* main from its first statement on
MainSpec == MainInit /\ [][MainNext]_vars

\* --------------------------------------------------------------- Renderer
\* nullptr
NullPtr == 0

\* the materials and the meshes a Renderer can be handed
Materials == {NullPtr, 1}
Meshes == {NullPtr, 1}

\* everything but the Renderers
nonRenderVars == <<regVars, levelVars, gameVars, phase, inputVars, obsVars, histVars, loopVars>>

\* Renderer::Renderer(): m_Material = nullptr; m_VAO = nullptr;
Renderer_New ==
    /\ Len(renderers) < MaxRenderers
    /\ renderers' = Append(renderers, [material |-> NullPtr, vao |-> NullPtr])
    /\ UNCHANGED glCalls
    /\ UNCHANGED nonRenderVars

\* Renderer::Renderer(_mat, _vao): setMaterial(_mat); setVAO(_vao);
Renderer_NewWith(mat, vao) ==
    /\ Len(renderers) < MaxRenderers
    /\ renderers' = Append(renderers, [material |-> mat, vao |-> vao])
    /\ UNCHANGED glCalls
    /\ UNCHANGED nonRenderVars

\* RenderOps testing the material only: Draw is called through a null m_VAO
RenderOps_MaterialOnly(rr) ==
    IF rr.material # NullPtr
    THEN <<[op |-> "ShaderBind", on |-> rr.material],
           [op |-> "BindAllUniform", on |-> rr.material],
           [op |-> "Draw", on |-> rr.vao],
           [op |-> "ShaderUnbind", on |-> rr.material]>>
    ELSE <<>>

\* what Renderer::Render does for a Renderer holding rr
RenderOps(rr) ==
    IF rr.material # NullPtr /\ rr.vao # NullPtr
    THEN <<[op |-> "ShaderBind", on |-> rr.material],
           [op |-> "BindAllUniform", on |-> rr.material],
           [op |-> "Draw", on |-> rr.vao],
           [op |-> "ShaderUnbind", on |-> rr.material]>>
    ELSE <<>>

\* void Renderer::Render() on the r-th Renderer
Renderer_Render(r) ==
    /\ r \in DOMAIN renderers
    /\ glCalls' = [renderer |-> r, ops |-> RenderOps(renderers[r])]
    /\ UNCHANGED renderers
    /\ UNCHANGED nonRenderVars

RenderInit == SceneInit

RenderNext ==
    \/ Renderer_New
    \/ \E mat \in Materials : \E vao \in Meshes : Renderer_NewWith(mat, vao)
    \/ \E r \in 1..MaxRenderers : Renderer_Render(r)

\* Renderers being constructed and rendered
RenderSpec == RenderInit /\ [][RenderNext]_vars

\* the player on the ground, for the runs that follow the two timers
TimerLevel == Level(<<1, 2>>, {{1, 2}})

TimerInit == InitScene(TimerLevel)

TimerNext ==
    \/ PollTimed
    \/ Update

\* GameScene1 under frames of every length
TimerSpec == TimerInit /\ [][TimerNext]_vars

\* ------------------------------------------------------------------ claims
\* C5: after any sequence of CreateEntity, Attach, AttachCopy and Remove the
\* bodies registered in the Physics World are exactly the SMI_Physics
\* components the registry stores, also after an AttachCopy onto an entity
\* that already held one.
C5_WorldIsRegistry == pc = "idle" => world = StoredBodies

\* C6: Remove<SMI_Physics> never leaves a body registered in the world whose
\* motion state or collision shape is already freed, and frees the native
\* body only once it is out of the world.
C6_DeregisteredBeforeFreed ==
    \A b \in world : b \notin freedMotion /\ b \notin freedShape /\ b \notin freedBody

\* bodies registered in the world on behalf of entity e
RegisteredFor(e) == {b \in world : bodyEntity[b] = e}

\* C7: once an entity's Physics Body is released (Remove<SMI_Physics> or
\* DeleteEntity) the world's registered-body count is back to what it was
\* before the entity was attached to: the entity accounts for no registered body.
C7_CountRestored ==
    pc = "idle" => \A e \in Created : ~HasComponent(e) => Cardinality(RegisteredFor(e)) = 0


\* a step that is one GameScene1::Update call
UpdateStep == phase = "polled" /\ phase' # "polled"

\* the identity tag the entity's stored SMI_Physics carries
TagOf(e) == comp[e].identity

\* recs holds a record pairing a tag-1 entity with a tag-2 entity
GroundPair(recs) ==
    \E i \in DOMAIN recs :
        \/ TagOf(recs[i][1]) = 1 /\ TagOf(recs[i][2]) = 2
        \/ TagOf(recs[i][1]) = 2 /\ TagOf(recs[i][2]) = 1

\* C1: at the end of every Update call grounded is true exactly when the
\* frame's Collisions hold a record of a tag-1 and a tag-2 entity, in
\* either order.
C1_GroundedIffGroundContact ==
    phase = "idle" => (grounded <=> GroundPair(Collisions))

\* C1 witness: an Update ended grounded on a record whose B1 is the ground
C1_Witness ==
    /\ phase = "idle"
    /\ grounded
    /\ \E i \in DOMAIN Collisions :
          TagOf(Collisions[i][1]) = 2 /\ TagOf(Collisions[i][2]) = 1

\* C2: an Update call applies the jump impulse exactly when the jump key is
\* sampled pressed, JumpState still holds the previous frame's sample
\* released, and the player is grounded or has a mid-air jump left.
C2_JumpGate ==
    [][UpdateStep =>
          /\ impulse' <=> (/\ keySpace = GLFW_PRESS
                           /\ JumpState = GLFW_RELEASE
                           /\ (grounded \/ CurrentMidAirJump < MidAirJump))
          /\ JumpState' = keySpace]_vars

\* C2 witness: a jump was honoured in mid-air and the player is still airborne
C2_Witness ==
    /\ phase = "idle"
    /\ impulse
    /\ ~grounded
    /\ CurrentMidAirJump = MidAirJump

\* C3: every reaction an Update call takes reads a record harvested by the
\* SMI_Scene::Update of that same call.
C3_ReactionsReadThisFramesRecords == \A f \in fired : f.fresh

\* record i of recs with B1 and B2 exchanged
SwapAt(recs, i) == [recs EXCEPT ![i] = <<recs[i][2], recs[i][1]>>]

\* what a dispatch leaves behind: positions, camera, the delta handed on,
\* the jump state, whether the process ended, and the rules that fired
Outcome(s) ==
    [pos |-> s.pos, camX |-> s.camX, deltaTime |-> s.deltaTime,
     grounded |-> s.grounded, CurrentMidAirJump |-> s.CurrentMidAirJump,
     exited |-> s.exited, crashed |-> s.crashed,
     rules |-> {f.rule : f \in s.fired}]

\* the scene as the reaction loops of this frame find it
AtDispatch == SteadyMotion(JumpInput(FollowPlayer(Timers(FrameStart))))

\* all thirteen loops (the twelve of Update, then Collider) run over recs
DispatchAll(recs, g) ==
    RunLoop("collider", Reactions([AtDispatch EXCEPT !.Collisions = recs], g), 1, g)

\* C4: exchanging B1 and B2 of any Collision Record changes neither the
\* reactions that fire nor the state the dispatch produces.
C4_RulesSymmetric ==
    phase = "polled" =>
        \A i \in DOMAIN Collisions :
            Outcome(DispatchAll(SwapAt(Collisions, i), CrashOutcome))
                = Outcome(DispatchAll(Collisions, CrashOutcome))

\* both entities of the record are valid handles of the registry
BothAlive(rec) == rec[1] \in alive /\ rec[2] \in alive

\* C8: a record naming an entity that is no longer valid is stepped over by
\* every loop: no component of its entities is read for it, no reaction
\* fires for it, the frame ends as if the record were not in the list, and
\* the other records are processed.
C8_InvalidRecordsSkipped ==
    [][UpdateStep =>
          /\ \A r \in reads' : r[1] # "collider" => BothAlive(Collisions[r[2]])
          /\ \A r \in reads' : r[1] = "collider" => BothAlive(Collisions'[r[2]])
          /\ \A f \in fired' : ~f.fresh => BothAlive(Collisions[f.idx])
          /\ \E g \in Garbage :
               LET kept == SelectSeq(Collisions, BothAlive)
                   o == Reactions([AtDispatch EXCEPT !.Collisions = kept], g)
               IN /\ pos' = o.pos
                  /\ camX' = o.camX
                  /\ (phase' = "exited") = o.exited
                  /\ (phase' = "crashed") = o.crashed
                  /\ {f.rule : f \in {x \in fired' : ~x.fresh}} = {f.rule : f \in o.fired}]_vars

\* C8 witness: an Update stepped over a stale record and still reacted to
\* another record of the same list
C8_Witness ==
    /\ phase = "idle"
    /\ skipped # {}
    /\ \E f \in fired : ~f.fresh /\ f.idx \notin skipped

\* C9: the dispatch calls GetComponent<SMI_Physics> only on entities that
\* hold an SMI_Physics component.
C9_ReadsOnlyStoredBodies == missingGets = {}

\* C10: the jump block raises CurrentMidAirJump by exactly 1 when it honours
\* a jump while grounded is false, and leaves it alone when it honours one
\* while grounded is true or honours none.
C10_MidAirCount ==
    [][UpdateStep =>
          /\ (impulse' /\ ~grounded) => midAirAfterInput' = CurrentMidAirJump + 1
          /\ (impulse' /\ grounded) => midAirAfterInput' = CurrentMidAirJump
          /\ ~impulse' => midAirAfterInput' = CurrentMidAirJump]_vars

\* C10 witness: a mid-air jump was counted and the same call then landed
C10_Witness ==
    /\ phase = "idle"
    /\ impulse
    /\ midAirAfterInput = 1
    /\ grounded

\* C11: an Update call in which Collider sets grounded ends with
\* CurrentMidAirJump = 0, whatever it was on entry and also when the jump
\* block of the same call counted a mid-air jump.
C11_LandingResetsCount ==
    [][(UpdateStep /\ phase' = "idle" /\ grounded') => CurrentMidAirJump' = 0]_vars

\* C11 witness: the call honoured a mid-air jump, then landed with the count at 0
C11_Witness ==
    /\ phase = "idle"
    /\ jumpEdge
    /\ impulse
    /\ midAirAfterInput = MidAirJump
    /\ grounded
    /\ CurrentMidAirJump = 0

\* C12: over consecutive Update calls that find grounded false, at most one
\* jump impulse is applied, however often the jump key is released and
\* pressed again.
C12_OneMidAirJump == airImpulses <= 1

\* C12 witness: airborne with the mid-air jump used, the key was pressed
\* anew and no impulse was applied
C12_Witness ==
    /\ phase = "idle"
    /\ ~grounded
    /\ airImpulses = 1
    /\ jumpEdge
    /\ ~impulse

\* C13: the clamped ratio t = current / max lies in [0, 1] in every frame,
\* is exactly 1 in every frame once the accumulated frame time has reached
\* max, and never decreases.
C13_ClampedRatio ==
    /\ [](0 <= current /\ current <= max)
    /\ [](elapsed >= max => current = max)
    /\ [][current' >= current]_vars

\* C13 witness: the frame in which the accumulated time passed max without
\* landing on it, current having been clamped
C13_Witness ==
    /\ phase = "idle"
    /\ elapsed > max
    /\ elapsed - frameDelta < max
    /\ current = max

\* C14: the wrapping ratio time = c / max lies in [0, 1) in every frame.
C14_WrapBelowOne == 0 <= c /\ c < max

\* recs without its record i
Drop(recs, i) == SubSeq(recs, 1, i - 1) \o SubSeq(recs, i + 1, Len(recs))

\* a record of two valid entities with Physics Bodies whose tags, in the
\* order B1, B2, are a pair no loop tests for
Unmatched(rec) ==
    /\ BothAlive(rec)
    /\ comp[rec[1]].body # NoBody
    /\ comp[rec[2]].body # NoBody
    /\ <<TagOf(rec[1]), TagOf(rec[2])>> \notin RulePairs

\* C15: a valid record whose tag pair matches no rule changes nothing: the
\* Update call ends with the positions, the camera, the delta handed to the
\* step, grounded and CurrentMidAirJump it would have ended with had the
\* record not been in the list, no reaction fires for it and no error is
\* raised.
C15_UnmatchedChangesNothing ==
    [][UpdateStep =>
          /\ phase' # "crashed"
          /\ \A i \in DOMAIN Collisions :
                Unmatched(Collisions[i]) =>
                    LET o == Reactions([AtDispatch EXCEPT !.Collisions = Drop(Collisions, i)],
                                       CrashOutcome)
                    IN /\ pos' = o.pos
                       /\ camX' = o.camX
                       /\ (phase' = "exited") = o.exited
                       /\ phase' = "idle" => stepDelta' = o.deltaTime
                       /\ \A f \in fired' : ~f.fresh => f.idx # i
          /\ \A i \in DOMAIN Collisions' :
                (phase' = "idle" /\ Unmatched(Collisions'[i])) =>
                    LET o == RunLoop("collider",
                                     [AtDispatch EXCEPT !.grounded = FALSE,
                                                        !.Collisions = Drop(Collisions', i)],
                                     1, CrashOutcome)
                    IN /\ grounded' = o.grounded
                       /\ CurrentMidAirJump' = o.CurrentMidAirJump
                       /\ \A f \in fired' : f.fresh => f.idx # i]_vars

\* C15 witness: Collider read a record matching no rule next to a ground
\* record it reacted to, after the loops of Update went over the old list
C15_Witness ==
    /\ phase = "idle"
    /\ \E r \in reads : r[1] = "l3"
    /\ \E i \in DOMAIN Collisions :
          /\ <<"collider", i>> \in reads
          /\ Unmatched(Collisions[i])
          /\ \E f \in fired : f.fresh /\ f.idx # i

\* the bodies and transforms a rule writes
Writes(rule) ==
    CASE rule = "r3" -> {"door2", "button", "button1"}
      [] rule = "r5" -> {"door3"}
      [] rule = "r24" -> {"door3"}
      [] rule = "r6" -> {"door4T", "door4", "button6", "button7"}
      [] rule = "r10" -> {"en", "door7"}
      [] rule = "r12" -> {"planks"}
      [] rule = "r13" -> {"door8"}
      [] rule = "r15" -> {"fan3"}
      [] OTHER -> {}

\* no two different rules among the reactions fs write the same entity
NoSharedTarget(fs) ==
    \A f1 \in fs : \A f2 \in fs :
        f1.rule # f2.rule => Writes(f1.rule) \cap Writes(f2.rule) = {}

\* the lists holding the records of recs in any order
Reorderings(recs) ==
    LET n == Len(recs)
        bijections == {p \in [1..n -> 1..n] : \A i \in 1..n : \E j \in 1..n : p[j] = i}
    IN {[i \in 1..n |-> recs[p[i]]] : p \in bijections}

\* C16: the positions an Update call leaves are a function of the scene
\* state, the timers, the keys and the record list it starts from; when no
\* two rules that fire write the same entity, they are the same for every
\* order of the records in the list.
C16_DispatchDeterministic ==
    /\ [][UpdateStep => pos' = Reactions(AtDispatch, CrashOutcome).pos]_vars
    /\ [](phase = "polled" =>
            \A ran \in {Reactions(AtDispatch, CrashOutcome)} :
                NoSharedTarget(ran.fired) =>
                    \A q \in Reorderings(Collisions) \ {Collisions} :
                        Reactions([AtDispatch EXCEPT !.Collisions = q], CrashOutcome).pos = ran.pos)

\* C16 witness: two different rules fired for two records of the old list
C16_Witness ==
    /\ phase = "idle"
    /\ \E f1 \in fired : \E f2 \in fired :
          /\ ~f1.fresh
          /\ ~f2.fresh
          /\ f1.idx # f2.idx
          /\ f1.rule # f2.rule
          /\ Writes(f1.rule) # {}
          /\ Writes(f2.rule) # {}
          /\ Writes(f1.rule) \cap Writes(f2.rule) = {}

\* the step is Attach<SMI_Physics>(e) or AttachCopy<SMI_Physics>(e, v)
\* returning: a newly constructed body is stored for e
AttachReturns(e) == nextBody' = nextBody + 1 /\ comp'[e].body = nextBody

\* C17: right after Attach or AttachCopy of a Physics Body returns, the
\* component stored for e names e as its entity, its rigid body is
\* registered in the Physics World and its in-world flag is true.
C17_AttachRegisters ==
    [][\A e \in Created :
          AttachReturns(e) =>
              /\ comp'[e].entity = e
              /\ comp'[e].body \in world'
              /\ comp'[e].inWorld]_vars

\* C17 witness: an entity attached to by Attach and one by AttachCopy over
\* a component it already held
C17_Witness ==
    /\ pc = "idle"
    /\ \E e \in alive : comp[e].body # NoBody /\ comp[e].identity = 0
    /\ \E e \in alive :
          /\ comp[e].body # NoBody
          /\ comp[e].identity # 0
          /\ \E b \in world : b # comp[e].body /\ bodyEntity[b] = e

\* C18: in every iteration in which the main scene is active, its Update
\* for the frame has completed before its Render is issued.
C18_UpdateBeforeRender ==
    \A j \in DOMAIN calls :
        calls[j] = "Render" => \E i \in 1..(j - 1) : calls[i] = "Update"

\* InitScene has built the main scene
InitDone == DOMAIN tags # {}

\* C19: MainScene.Update is called only once InitScene has run and only in
\* iterations in which neither the menu nor the pause screen is up; outside
\* InitScene and Update nothing changes the scene, its timers or its jump
\* state.
C19_UpdateOnlyWhenActive ==
    /\ [](mainPc = "update" => (InitDone /\ ~notmenu /\ notpause))
    /\ []((mainPc \in {"menu", "pause", "end", "ended"} /\ (notmenu \/ ~notpause))
            => \A i \in DOMAIN calls : calls[i] # "Update")
    /\ [][(mainPc # "init" /\ mainPc # "update") =>
              /\ UNCHANGED sceneVars
              /\ impulse' => impulse
              /\ fired' \subseteq fired
              /\ stepDelta' \in {stepDelta, 0}]_vars

\* C19 witness: the game ran, then an iteration three seconds long went by
\* with the pause screen up and no Update
C19_Witness ==
    /\ mainPc = "end"
    /\ ~notmenu
    /\ ~notpause
    /\ elapsed > 0
    /\ frameDelta > 0
    /\ calls = <<"PauseRender">>

\* C20: Renderer::Render on a Renderer whose material or mesh is null binds
\* no shader and no uniform, issues no draw and returns; it draws exactly
\* when both are set, between binding and unbinding the material's shader.
C20_NullRendererSkipsDraw ==
    glCalls.renderer # 0 =>
        LET rr == renderers[glCalls.renderer]
        IN /\ (rr.material = NullPtr \/ rr.vao = NullPtr) => glCalls.ops = <<>>
           /\ \A i \in DOMAIN glCalls.ops : glCalls.ops[i].on # NullPtr
           /\ (rr.material # NullPtr /\ rr.vao # NullPtr) =>
                 /\ Len(glCalls.ops) = 4
                 /\ glCalls.ops[1].op = "ShaderBind"
                 /\ glCalls.ops[2].op = "BindAllUniform"
                 /\ glCalls.ops[3] = [op |-> "Draw", on |-> rr.vao]
                 /\ glCalls.ops[4].op = "ShaderUnbind"

\* C20 witness: Render returned without a call on a Renderer that has a
\* material but no mesh, a complete Renderer existing beside it
C20_Witness ==
    /\ glCalls.renderer # 0
    /\ renderers[glCalls.renderer].material # NullPtr
    /\ renderers[glCalls.renderer].vao = NullPtr
    /\ glCalls.ops = <<>>
    /\ \E r \in DOMAIN renderers :
          renderers[r].material # NullPtr /\ renderers[r].vao # NullPtr

\* C21: after every frame the wrapping counter c equals the total elapsed
\* frame time modulo max, no time being lost at a wrap.
C21_WrapIsModulo == c = elapsed % max

\* recs holds a record pairing a tag-1 entity with a tag-k entity, in
\* either order
PairIn(recs, k) ==
    \E i \in DOMAIN recs :
        \/ TagOf(recs[i][1]) = 1 /\ TagOf(recs[i][2]) = k
        \/ TagOf(recs[i][1]) = k /\ TagOf(recs[i][2]) = 1

\* C22: after an Update call whose Collisions list holds a record of the
\* player and a tag-6 body, in either order, the Transform and the Physics
\* Body of door4 are both at Lerp((-12.5, 9.2, 2.0), (-12.5, -9.2, 2.0), t)
\* for the call's clamped t.
C22_BarDoorFollowsRatio ==
    [][(UpdateStep /\ PairIn(Collisions, 6)) =>
          /\ pos'.door4T = Lerp(Vec(-125, 92, 20), Vec(-125, -92, 20), current')
          /\ pos'.door4 = Lerp(Vec(-125, 92, 20), Vec(-125, -92, 20), current')]_vars

\* C23: a press first sampled while the gate is closed gives no impulse,
\* and as long as the key is then sampled pressed without a release in
\* between no impulse is applied, landing or not.
C23_NoJumpBuffering ==
    [][UpdateStep =>
          /\ (/\ keySpace = GLFW_PRESS
              /\ JumpState = GLFW_RELEASE
              /\ ~grounded
              /\ CurrentMidAirJump = MidAirJump) => ~impulse'
          /\ (refusedHeld /\ keySpace = GLFW_PRESS) => ~impulse']_vars

\* C23 witness: the refused press is still held in a call that found the
\* player landed, and no impulse was applied
C23_Witness ==
    /\ phase = "idle"
    /\ refusedHeld
    /\ keySpace = GLFW_PRESS
    /\ airImpulses = 0
    /\ CurrentMidAirJump = 0
    /\ ~impulse

\* the tags whose contact with the player freezes the step
HazardTags == {7, 8, 9, 14, 16}

\* recs pairs the player with a body carrying a hazard tag
HazardIn(recs) == \E k \in HazardTags : PairIn(recs, k)

\* C24: an Update call whose Collisions list pairs the player with a body
\* tagged 7, 8, 9, 14 or 16, in either order, hands the delta 0 to
\* SMI_Scene::Update whatever delta it received; a call without such a
\* record hands on the delta it received.
C24_HazardFreezesStep ==
    [][(UpdateStep /\ phase' = "idle") =>
          stepDelta' = IF HazardIn(Collisions) THEN 0 ELSE frameDelta]_vars

\* C24 witness: a call that received three seconds stepped the world by 0
\* on a record of the player and the tag-14 body
C24_Witness ==
    /\ phase = "idle"
    /\ frameDelta = 3
    /\ stepDelta = 0
    /\ \E f \in fired : f.rule = "r14" /\ ~f.fresh
    /\ TagOf(2) = 14

\* C25: 0 <= CurrentMidAirJump <= MidAirJump in every reachable state.
C25_CountInRange == 0 <= CurrentMidAirJump /\ CurrentMidAirJump <= MidAirJump

\* C25 witness: with the count at MidAirJump a new press arrived in the
\* air and the count stayed
C25_Witness ==
    /\ phase = "idle"
    /\ jumpEdge
    /\ ~impulse
    /\ ~grounded
    /\ midAirAfterInput = MidAirJump
    /\ CurrentMidAirJump = MidAirJump

\* the records of recs that match the rule moving door3 down
OpensDoor3(recs) ==
    {i \in DOMAIN recs :
        \/ TagOf(recs[i][1]) = 4 /\ TagOf(recs[i][2]) = 5
        \/ TagOf(recs[i][1]) = 1 /\ TagOf(recs[i][2]) = 5}

\* the records of recs that match the rule putting door3 at rest
RestsDoor3(recs) ==
    {i \in DOMAIN recs : TagOf(recs[i][1]) = 2 /\ TagOf(recs[i][2]) = 4}

\* the largest index in a non-empty set of indices
Last(is) == CHOOSE i \in is : \A j \in is : j <= i

\* C26: when the list an Update call dispatches holds both a record
\* matching (4,5) or (1,5) and a record matching (2,4), door3 ends where
\* the rule of the later of those records puts it.
C26_LastDoor3RecordWins ==
    [][(UpdateStep /\ OpensDoor3(Collisions) # {} /\ RestsDoor3(Collisions) # {}) =>
          pos'.door3 =
              IF Last(OpensDoor3(Collisions) \cup RestsDoor3(Collisions)) \in OpensDoor3(Collisions)
              THEN Lerp(Vec(-1667, 70, 25), Vec(-1667, -340, 25), current')
              ELSE Fixed(Vec(-1667, 70, 25))]_vars

\* C26 witness: both rules fired in one call, the rest rule for the later
\* record, and door3 is at rest although t is past 0
C26_Witness ==
    /\ phase = "idle"
    /\ current > 0
    /\ [rule |-> "r5", idx |-> 1, fresh |-> FALSE] \in fired
    /\ [rule |-> "r24", idx |-> 2, fresh |-> FALSE] \in fired
    /\ pos.door3 = Fixed(Vec(-1667, 70, 25))

\* the smaller of two numbers
Min(a, b) == IF a < b THEN a ELSE b

\* C27: the clamped ratio is a clock of the scene: current is the sum of
\* the deltas of all Update calls so far, clamped at max, whether or not a
\* collision has occurred; a (1,3) or (1,6) reaction taken once that sum
\* has reached max puts its door at the fully open endpoint at once.
C27_RatioIsSceneClock ==
    /\ [](current = Min(elapsed, max))
    /\ [][(UpdateStep /\ elapsed' >= max) =>
              /\ (\E f \in fired' : f.rule = "r3") => pos'.door2 = Fixed(Vec(1510, 70, 65))
              /\ (\E f \in fired' : f.rule = "r6") =>
                    /\ pos'.door4T = Fixed(Vec(-125, -92, 20))
                    /\ pos'.door4 = Fixed(Vec(-125, -92, 20))]_vars

\* C27 witness: the reaction of the (1,6) record was taken with six seconds
\* of Update time gone and the bar door is at its open endpoint
C27_Witness ==
    /\ phase = "idle"
    /\ elapsed = 6
    /\ \E f \in fired : f.rule = "r6"
    /\ pos.door4 = Fixed(Vec(-125, -92, 20))
    /\ pos.button6 = Fixed(Vec(-125, -877, 151))

\* C30: an Update call ends the process only when the E key is down and
\* the list it dispatches pairs the player with a body tagged 7, 8, 9, 14
\* or 16.
C30_ExitNeedsHazardAndE ==
    [][(UpdateStep /\ phase' # "idle") =>
          /\ phase' = "exited"
          /\ keyE
          /\ HazardIn(Collisions)]_vars

\* C30 witness: the process ended in the loop of tag 16 with E down
C30_Witness ==
    /\ phase = "exited"
    /\ keyE
    /\ \E f \in fired : f.rule = "r16"

C29_TogglesEdgeTriggered ==
    /\ [][mainPc = "toggleP" =>
            (/\ (notmenu' # notmenu) <=> (keyP /\ ~isButtonPressed)
             /\ isButtonPressed' = keyP
             /\ notpause' = notpause)]_vars
    /\ [][mainPc = "toggleB" =>
            (/\ (notpause' # notpause) <=> (keyB /\ ~it)
             /\ it' = keyB
             /\ notmenu' = notmenu)]_vars
    /\ [][mainPc \notin {"toggleP", "toggleB"} =>
            UNCHANGED <<notmenu, notpause, isButtonPressed, it>>]_vars
    /\ [](mainPc = "loop" => (isButtonPressed = keyP /\ it = keyB))

\* C29 witness: B was found down while the menu was up and before the
\* game ever ran, and the game is now paused behind the menu
C29_Witness ==
    /\ mainPc = "scene"
    /\ notmenu
    /\ ~notpause
    /\ keyB
    /\ ~keyP
    /\ ~isButtonPressed
    /\ elapsed = 0
    /\ clock = 0

====
